---- MODULE Spec2Model ----
(***************************************************************************)
(* tropolib: helpers that build CloudFormation resource descriptions.      *)
(*   src/src/ec2.py          multiaz_subnets, VpcTemplate                  *)
(*   src/src/apigatewayv2.py HttpApi                                       *)
(*                                                                         *)
(* Python strings are modelled as sequences of one-character strings, so   *)
(* that upper(), lower(), capitalize(), alphanum(), slicing, concatenation *)
(* and the "in" substring test are computed and not assumed.               *)
(***************************************************************************)
EXTENDS Integers, Sequences, FiniteSets, TLC

VARIABLES
    ms_call,              \* arguments of the multiaz_subnets call
    ms_out,               \* its outcome: the raised error and the returned list
    self,                 \* VpcTemplate: the attributes __init__ sets for good
    _r,                   \* VpcTemplate._r: the registered resources, a dict
    _o,                   \* VpcTemplate._o: the outputs, a dict
    _t,                   \* VpcTemplate._t: the troposphere Template
    nat_gateways,         \* VpcTemplate.nat_gateways
    natted_route_tables,  \* VpcTemplate.natted_route_tables
    last,                 \* the last VpcTemplate method call and its outcome
    calls,                \* number of VpcTemplate method calls made
    resources,            \* HttpApi.resources, a dict
    api_last,             \* the last HttpApi method call and its outcome
    api_calls             \* number of HttpApi method calls made

subnet_vars == <<ms_call, ms_out>>
vpc_vars    == <<self, _r, _o, _t, nat_gateways, natted_route_tables, last, calls>>
api_vars    == <<resources, api_last, api_calls>>
vars        == <<subnet_vars, vpc_vars, api_vars>>

----------------------------------------------------------------------------
(* Python values *)

\* Python's None
None == [kind |-> "None"]

\* a str passed where an object could be passed as well (vpc_id, ...)
Str(s) == [kind |-> "str", chars |-> s]

\* troposphere.Ref(obj): a reference to the resource by its logical title
Ref(obj) == [kind |-> "Ref", title |-> obj.title]

\* troposphere.GetAtt(obj, attr)
GetAtt(obj, attr) == [kind |-> "GetAtt", title |-> obj.title, attr |-> attr]

----------------------------------------------------------------------------
(* str methods *)

LowerChars == <<"a", "b", "c", "d", "e", "f", "g", "h", "i", "j", "k", "l", "m", "n", "o", "p", "q", "r", "s", "t", "u", "v", "w", "x", "y", "z">>
UpperChars == <<"A", "B", "C", "D", "E", "F", "G", "H", "I", "J", "K", "L", "M", "N", "O", "P", "Q", "R", "S", "T", "U", "V", "W", "X", "Y", "Z">>
DigitChars == <<"0", "1", "2", "3", "4", "5", "6", "7", "8", "9">>

Chars(s) == {s[i] : i \in 1..Len(s)}

InSeq(c, s) == \E i \in 1..Len(s) : s[i] = c

\* the upper-case form of each lower-case letter, and the reverse
ToUpper == [c \in Chars(LowerChars) |->
               UpperChars[CHOOSE i \in 1..Len(LowerChars) : LowerChars[i] = c]]
ToLower == [c \in Chars(UpperChars) |->
               LowerChars[CHOOSE i \in 1..Len(UpperChars) : UpperChars[i] = c]]

\* str.upper() on one character
UpperChar(c) == IF c \in DOMAIN ToUpper THEN ToUpper[c] ELSE c

\* str.lower() on one character
LowerChar(c) == IF c \in DOMAIN ToLower THEN ToLower[c] ELSE c

\* str.upper()
Upper(s) == [i \in 1..Len(s) |-> UpperChar(s[i])]

\* str.lower()
Lower(s) == [i \in 1..Len(s) |-> LowerChar(s[i])]

\* str.capitalize(): first character upper case, the rest lower case
Capitalize(s) == [i \in 1..Len(s) |-> IF i = 1 THEN UpperChar(s[i]) ELSE LowerChar(s[i])]

\* str.isalnum() on one character
AlnumChars == Chars(LowerChars) \cup Chars(UpperChars) \cup Chars(DigitChars)

IsAlnum(c) == c \in AlnumChars

\* pawslib.var.alphanum: drops every character that is not alphanumeric
Alphanum(s) == SelectSeq(s, IsAlnum)

\* s[-1:]: the last character, or the empty string
LastChar(s) == IF Len(s) = 0 THEN <<>> ELSE <<s[Len(s)]>>

\* s[:n]
Prefix(s, n) == SubSeq(s, 1, IF Len(s) < n THEN Len(s) ELSE n)

\* "sub in s"
Contains(s, sub) ==
    \E k \in 0..(Len(s) - Len(sub)) : SubSeq(s, k + 1, k + Len(sub)) = sub

\* f"{n}" for an int n >= 0
RECURSIVE Digits(_)
Digits(n) == IF n < 10 THEN <<DigitChars[n + 1]>>
             ELSE Digits(n \div 10) \o <<DigitChars[(n % 10) + 1]>>

----------------------------------------------------------------------------
(* pawslib.ec2.split_net_across_zones: not part of this repository.        *)
(* It asks EC2 for the region's availability zones and splits the block    *)
(* into no_of_subnets equal parts, assigned to the zones round-robin.      *)

\* the zone letters the region offers
ZoneLetters == <<"a", "b", "c">>

AvailabilityZones(region) == [i \in 1..Len(ZoneLetters) |-> region \o <<ZoneLetters[i]>>]

split_net_across_zones(cidr_block, region, no_of_subnets) ==
    LET zones == AvailabilityZones(region)
    IN  [i \in 1..no_of_subnets |->
            [az   |-> zones[((i - 1) % Len(zones)) + 1],
             cidr |-> [block |-> cidr_block, part |-> i, parts |-> no_of_subnets]]]

----------------------------------------------------------------------------
(* multiaz_subnets, src/src/ec2.py:8-114 *)

\* t_ec2.Subnet(...) with its Metadata, ec2.py:81-91
Subnet(prefix, name_prefix, index, net_segment, vpc_id) ==
    LET az_index == Upper(LastChar(net_segment.az))
    IN  [Type             |-> "AWS::EC2::Subnet",
         title            |-> prefix \o Digits(index + 1),
         AvailabilityZone |-> net_segment.az,
         CidrBlock        |-> net_segment.cidr,
         VpcId            |-> vpc_id,
         Tags             |-> <<[Key |-> "Name", Value |-> name_prefix \o <<" ">> \o az_index]>>,
         Metadata         |-> [az       |-> Lower(net_segment.az),
                               az_index |-> az_index,
                               suffix   |-> index + 1]]

\* t_ec2.SubnetNetworkAclAssociation(...), ec2.py:98-102
SubnetNetworkAclAssociation(subnet, network_acl_id) ==
    [Type         |-> "AWS::EC2::SubnetNetworkAclAssociation",
     title        |-> subnet.title \o <<"N", "a", "c", "l", "A", "s", "s", "o", "c", "i", "a", "t", "i", "o", "n">>,
     SubnetId     |-> Ref(subnet),
     NetworkAclId |-> network_acl_id]

\* t_ec2.SubnetRouteTableAssociation(...), ec2.py:108-112
SubnetRouteTableAssociation(subnet, route_table_id) ==
    [Type         |-> "AWS::EC2::SubnetRouteTableAssociation",
     title        |-> subnet.title \o <<"R", "o", "u", "t", "e", "A", "s", "s", "o", "c", "i", "a", "t", "i", "o", "n">>,
     SubnetId     |-> Ref(subnet),
     RouteTableId |-> route_table_id]

\* faulty variant: a resource object is never turned into a reference
ResolveIdOnlyGiven(given_id, resource) == given_id

\* faulty variant: the resource object wins over the id
ResolveIdPreferObject(given_id, resource) ==
    IF resource # None THEN Ref(resource) ELSE given_id

\* ec2.py:94-95 and 104-105: the id as rebound in the loop body
ResolveId(given_id, resource) ==
    IF given_id = None /\ resource # None THEN Ref(resource) ELSE given_id

\* the loop of ec2.py:78-113; index counts from 0 as enumerate does, and
\* network_acl_id / route_table_id carry their rebinding to the next round
RECURSIVE SubnetLoop(_, _, _, _, _, _, _, _, _)
SubnetLoop(net_split, index, prefix, name_prefix, vpc_id, network_acl, network_acl_id, route_table, route_table_id) ==
    IF index >= Len(net_split) THEN <<>>
    ELSE LET subnet == Subnet(prefix, name_prefix, index, net_split[index + 1], vpc_id)
             acl_id == ResolveId(network_acl_id, network_acl)
             rt_id  == ResolveId(route_table_id, route_table)
         IN  <<subnet>>
             \o (IF acl_id # None THEN <<SubnetNetworkAclAssociation(subnet, acl_id)>> ELSE <<>>)
             \o (IF rt_id # None THEN <<SubnetRouteTableAssociation(subnet, rt_id)>> ELSE <<>>)
             \o SubnetLoop(net_split, index + 1, prefix, name_prefix, vpc_id,
                           network_acl, acl_id, route_table, rt_id)

\* faulty variant: vpc_id is not looked at
MissingVpcOnlyObject(a) == a.vpc = None

\* ec2.py:70-71: the only input validation
MissingVpc(a) == a.vpc = None /\ a.vpc_id = None

\* multiaz_subnets(**a): the error raised, the subnet count asked of the
\* split (0 when the split is never called) and the list returned
multiaz_subnets(a) ==
    IF MissingVpc(a)
    THEN [raised |-> "ValueError", requested |-> 0, resources |-> <<>>]
    ELSE LET vpc_id    == IF a.vpc_id = None THEN Ref(a.vpc) ELSE a.vpc_id
             prefix    == Capitalize(Lower(Alphanum(a.name_prefix)))
             net_split == split_net_across_zones(a.cidr_block, a.region, a.no_of_subnets)
         IN  [raised    |-> "None",
              requested |-> a.no_of_subnets,
              resources |-> SubnetLoop(net_split, 0, prefix, a.name_prefix, vpc_id,
                                       a.network_acl, a.network_acl_id,
                                       a.route_table, a.route_table_id)]

----------------------------------------------------------------------------
(* Inputs of the function-level specification *)

\* resource objects a caller can pass
SomeVpc        == [Type |-> "AWS::EC2::VPC", title |-> <<"M", "a", "i", "n", "V", "p", "c">>]
SomeNetworkAcl == [Type |-> "AWS::EC2::NetworkAcl", title |-> <<"A", "p", "p", "N", "a", "c", "l">>]
SomeRouteTable == [Type |-> "AWS::EC2::RouteTable", title |-> <<"A", "p", "p", "R", "o", "u", "t", "e", "T", "a", "b", "l", "e">>]

NamePrefixes == {<<"p", "u", "b">>, <<"W", "e", "b", "-", "D", "B">>}
RegionName   == <<"e", "u", "-", "w", "e", "s", "t", "-", "1">>
VpcCidr      == <<"1", "0", ".", "0", ".", "0", ".", "0", "/", "1", "6">>

MsArgs ==
    [name_prefix    : NamePrefixes,
     cidr_block     : {VpcCidr},
     region         : {RegionName},
     vpc            : {None, SomeVpc},
     vpc_id         : {None, Str(<<"v", "p", "c", "-", "0", "a", "1">>)},
     no_of_subnets  : {1, 2, 4},
     network_acl    : {None, SomeNetworkAcl},
     network_acl_id : {None, Str(<<"a", "c", "l", "-", "0", "b", "2">>)},
     route_table    : {None, SomeRouteTable},
     route_table_id : {None, Str(<<"r", "t", "b", "-", "0", "c", "3">>)}]

----------------------------------------------------------------------------
(* Python dicts: insertion-ordered; assigning to an existing key replaces  *)
(* the value and keeps the key's position.                                 *)

DictHas(d, k) == \E i \in 1..Len(d) : d[i].key = k

\* d[k] = v
DictSet(d, k, v) ==
    IF DictHas(d, k)
    THEN [i \in 1..Len(d) |-> IF d[i].key = k THEN [key |-> k, value |-> v] ELSE d[i]]
    ELSE Append(d, [key |-> k, value |-> v])

DictValues(d) == {d[i].value : i \in 1..Len(d)}

----------------------------------------------------------------------------
(* VpcTemplate.__init__, src/src/ec2.py:128-360 *)

NameTag(value) == <<[Key |-> "Name", Value |-> value]>>

\* t_ec2.NetworkAclEntry(...) as __init__ builds its entries
NetworkAclEntry(title, nacl, egress, rule_number, cidr, protocol, port, icmp) ==
    [Type         |-> "AWS::EC2::NetworkAclEntry",
     title        |-> title,
     NetworkAclId |-> Ref(nacl),
     Egress       |-> egress,
     RuleNumber   |-> rule_number,
     CidrBlock    |-> cidr,
     Protocol     |-> protocol,
     PortRange    |-> port,
     Icmp         |-> icmp,
     RuleAction   |-> "allow"]

PortRange(from, to) == [From |-> from, To |-> to]

AnyCidr == Str(<<"0", ".", "0", ".", "0", ".", "0", "/", "0">>)

\* ec2.py:162-168
TheVpc(name, cidr_block) ==
    [Type               |-> "AWS::EC2::VPC",
     title              |-> name \o <<"V", "p", "c">>,
     CidrBlock          |-> Str(cidr_block),
     EnableDnsHostnames |-> TRUE,
     EnableDnsSupport   |-> TRUE,
     Tags               |-> NameTag(name)]

\* ec2.py:178-181
TheIgw(name) ==
    [Type  |-> "AWS::EC2::InternetGateway",
     title |-> <<"I", "g", "w">>,
     Tags  |-> NameTag(name \o <<"-", "i", "g", "w">>)]

\* ec2.py:188-192
PubRouteTable(vpc) ==
    [Type  |-> "AWS::EC2::RouteTable",
     title |-> <<"P", "u", "b", "R", "o", "u", "t", "e", "T", "a", "b", "l", "e">>,
     VpcId |-> Ref(vpc),
     Tags  |-> NameTag(<<"P", "u", "b", "l", "i", "c">>)]

\* ec2.py:202-206
PubNacl(vpc) ==
    [Type  |-> "AWS::EC2::NetworkAcl",
     title |-> <<"P", "u", "b", "N", "a", "c", "l">>,
     VpcId |-> Ref(vpc),
     Tags  |-> NameTag(<<"P", "u", "b", "l", "i", "c">>)]

\* ec2.py:297-301
InternalNacl(vpc) ==
    [Type  |-> "AWS::EC2::NetworkAcl",
     title |-> <<"I", "n", "t", "e", "r", "n", "a", "l", "N", "a", "c", "l">>,
     VpcId |-> Ref(vpc),
     Tags  |-> NameTag(<<"P", "r", "i", "v", "a", "t", "e">>)]

\* ec2.py:236-245 and 331-340: one entry per internal network
RECURSIVE InternalEntries(_, _, _, _, _, _)
InternalEntries(d, key_prefix, title_prefix, nacl, networks, index) ==
    IF index >= Len(networks) THEN d
    ELSE InternalEntries(
             DictSet(d, key_prefix \o Digits(index),
                     NetworkAclEntry(title_prefix \o Digits(index), nacl, FALSE,
                                     101 + index, Str(networks[index + 1]), -1, None, None)),
             key_prefix, title_prefix, nacl, networks, index + 1)

\* ec2.py:162-200: VPC, internet gateway, public route table
InitGateway(name, cidr_block, internet_access_enabled) ==
    LET vpc == TheVpc(name, cidr_block)
        d1  == DictSet(<<>>, <<"V", "p", "c">>, vpc)
        d2  == IF internet_access_enabled
               THEN DictSet(DictSet(d1, <<"I", "g", "w">>, TheIgw(name)),
                            <<"i", "g", "w", "_", "a", "t", "t", "a", "c", "h", "m", "e", "n", "t">>,
                            [Type              |-> "AWS::EC2::VPCGatewayAttachment",
                             title             |-> <<"I", "g", "w", "A", "t", "t", "a", "c", "h", "m", "e", "n", "t">>,
                             VpcId             |-> Ref(vpc),
                             InternetGatewayId |-> Ref(TheIgw(name))])
               ELSE d1
        d3  == DictSet(d2, <<"P", "u", "b", "R", "o", "u", "t", "e", "T", "a", "b", "l", "e">>, PubRouteTable(vpc))
    IN  IF internet_access_enabled
        THEN DictSet(d3, <<"p", "u", "b", "_", "r", "t", "t", "_", "r", "t", "_", "p", "u", "b">>,
                     [Type                 |-> "AWS::EC2::Route",
                      title                |-> <<"P", "u", "b", "R", "o", "u", "t", "e">>,
                      RouteTableId         |-> Ref(PubRouteTable(vpc)),
                      DestinationCidrBlock |-> AnyCidr,
                      GatewayId            |-> Ref(TheIgw(name))])
        ELSE d3

\* ec2.py:202-295: the network ACL for public subnets
InitPubNacl(d, vpc, internal_networks) ==
    LET nacl == PubNacl(vpc)
        d1 == DictSet(d, <<"P", "u", "b", "N", "a", "c", "l">>, nacl)
        d2 == DictSet(d1, <<"p", "u", "b", "_", "n", "a", "c", "l", "_", "o", "u", "t", "_", "a", "l", "l">>,
                  NetworkAclEntry(<<"P", "u", "b", "N", "a", "c", "l", "O", "u", "t", "A", "l", "l">>, nacl, TRUE, 500, AnyCidr, -1, None, None))
        d3 == DictSet(d2, <<"p", "u", "b", "_", "n", "a", "c", "l", "_", "i", "n", "_", "i", "c", "m", "p">>,
                  NetworkAclEntry(<<"P", "u", "b", "N", "a", "c", "l", "I", "n", "I", "c", "m", "p">>, nacl, FALSE, 99, AnyCidr, 1, None,
                                  [Code |-> -1, Type |-> -1]))
        d4 == DictSet(d3, <<"p", "u", "b", "_", "n", "a", "c", "l", "_", "i", "n", "_", "v", "p", "c">>,
                  NetworkAclEntry(<<"P", "u", "b", "N", "a", "c", "l", "I", "n", "V", "p", "c">>, nacl, FALSE, 100,
                                  GetAtt(vpc, "CidrBlock"), -1, None, None))
        d5 == InternalEntries(d4, <<"p", "u", "b", "_", "n", "a", "c", "l", "_", "i", "n", "_", "i", "n", "t", "e", "r", "n", "a", "l", "_">>, <<"P", "u", "b", "N", "a", "c", "l", "I", "n", "I", "n", "t", "e", "r", "n", "a", "l">>,
                              nacl, internal_networks, 0)
        d6 == DictSet(d5, <<"p", "u", "b", "_", "n", "a", "c", "l", "_", "i", "n", "_", "s", "s", "h">>,
                  NetworkAclEntry(<<"P", "u", "b", "N", "a", "c", "l", "I", "n", "S", "s", "h">>, nacl, FALSE, 210, AnyCidr, 6,
                                  PortRange(22, 22), None))
        d7 == DictSet(d6, <<"p", "u", "b", "_", "n", "a", "c", "l", "_", "i", "n", "_", "h", "t", "t", "p">>,
                  NetworkAclEntry(<<"P", "u", "b", "N", "a", "c", "l", "I", "n", "H", "t", "t", "p">>, nacl, FALSE, 220, AnyCidr, 6,
                                  PortRange(80, 80), None))
        d8 == DictSet(d7, <<"p", "u", "b", "_", "n", "a", "c", "l", "_", "i", "n", "_", "h", "t", "t", "p", "s">>,
                  NetworkAclEntry(<<"P", "u", "b", "N", "a", "c", "l", "I", "n", "H", "t", "t", "p", "s">>, nacl, FALSE, 221, AnyCidr, 6,
                                  PortRange(443, 443), None))
        d9 == DictSet(d8, <<"p", "u", "b", "_", "n", "a", "c", "l", "_", "i", "n", "_", "n", "a", "t", "_", "t", "c", "p">>,
                  NetworkAclEntry(<<"P", "u", "b", "N", "a", "c", "l", "I", "n", "N", "a", "t", "T", "c", "p">>, nacl, FALSE, 500, AnyCidr, 6,
                                  PortRange(1024, 65535), None))
    IN  DictSet(d9, <<"p", "u", "b", "_", "n", "a", "c", "l", "_", "i", "n", "_", "n", "a", "t", "_", "u", "d", "p">>,
                NetworkAclEntry(<<"P", "u", "b", "N", "a", "c", "l", "I", "n", "N", "a", "t", "U", "d", "p">>, nacl, FALSE, 501, AnyCidr, 17,
                                PortRange(1024, 65535), None))

\* ec2.py:296-360: the network ACL for private subnets
InitInternalNacl(d, vpc, internal_networks) ==
    LET nacl == InternalNacl(vpc)
        d1 == DictSet(d, <<"I", "n", "t", "e", "r", "n", "a", "l", "N", "a", "c", "l">>, nacl)
        d2 == DictSet(d1, <<"i", "n", "t", "e", "r", "n", "a", "l", "_", "n", "a", "c", "l", "_", "o", "u", "t", "_", "a", "l", "l">>,
                  NetworkAclEntry(<<"I", "n", "t", "e", "r", "n", "a", "l", "N", "a", "c", "l", "O", "u", "t", "A", "l", "l">>, nacl, TRUE, 500, AnyCidr, -1,
                                  None, None))
        d3 == DictSet(d2, <<"i", "n", "t", "e", "r", "n", "a", "l", "_", "n", "a", "c", "l", "_", "i", "n", "_", "i", "c", "m", "p">>,
                  NetworkAclEntry(<<"I", "n", "t", "e", "r", "n", "a", "l", "N", "a", "c", "l", "I", "n", "I", "c", "m", "p">>, nacl, FALSE, 99, AnyCidr, 1, None,
                                  [Code |-> -1, Type |-> -1]))
        d4 == DictSet(d3, <<"i", "n", "t", "e", "r", "n", "a", "l", "_", "n", "a", "c", "l", "_", "i", "n", "_", "v", "p", "c">>,
                  NetworkAclEntry(<<"I", "n", "t", "e", "r", "n", "a", "l", "N", "a", "c", "l", "I", "n", "V", "p", "c">>, nacl, FALSE, 100,
                                  GetAtt(vpc, "CidrBlock"), -1, None, None))
        d5 == InternalEntries(d4, <<"i", "n", "t", "e", "r", "n", "a", "l", "_", "n", "a", "c", "l", "_", "i", "n", "_", "i", "n", "t", "e", "r", "n", "a", "l", "_">>, <<"I", "n", "t", "e", "r", "n", "a", "l", "N", "a", "c", "l", "I", "n", "I", "n", "t", "e", "r", "n", "a", "l">>,
                              nacl, internal_networks, 0)
        d6 == DictSet(d5, <<"i", "n", "t", "e", "r", "n", "a", "l", "_", "n", "a", "c", "l", "_", "i", "n", "_", "n", "a", "t", "_", "t", "c", "p">>,
                  NetworkAclEntry(<<"I", "n", "t", "e", "r", "n", "a", "l", "N", "a", "c", "l", "I", "n", "N", "a", "t", "T", "c", "p">>, nacl, FALSE, 500, AnyCidr, 6,
                                  PortRange(1024, 65535), None))
    IN  DictSet(d6, <<"i", "n", "t", "e", "r", "n", "a", "l", "_", "n", "a", "c", "l", "_", "i", "n", "_", "n", "a", "t", "_", "u", "d", "p">>,
                NetworkAclEntry(<<"I", "n", "t", "e", "r", "n", "a", "l", "N", "a", "c", "l", "I", "n", "N", "a", "t", "U", "d", "p">>, nacl, FALSE, 501, AnyCidr, 17,
                                PortRange(1024, 65535), None))

\* VpcTemplate(region, cidr_block, name, internet_access_enabled, internal_networks)
VpcTemplateInit(region, cidr_block, name, internet_access_enabled, internal_networks) ==
    LET vpc == TheVpc(name, cidr_block)
    IN  /\ self = [name                    |-> name,
                   region                  |-> region,
                   cidr_block              |-> cidr_block,
                   internal_networks       |-> internal_networks,
                   internet_access_enabled |-> internet_access_enabled,
                   vpc                     |-> vpc,
                   public_route_table      |-> PubRouteTable(vpc),
                   public_nacl             |-> PubNacl(vpc),
                   internal_nacl           |-> InternalNacl(vpc)]
        /\ nat_gateways = <<>>
        /\ natted_route_tables = <<>>
        /\ _t = [resources |-> <<>>, outputs |-> <<>>]
        /\ _r = InitInternalNacl(
                    InitPubNacl(InitGateway(name, cidr_block, internet_access_enabled),
                                vpc, internal_networks),
                    vpc, internal_networks)
        /\ _o = DictSet(<<>>, <<"V", "p", "c", "I", "d">>,
                        [title  |-> <<"V", "p", "c", "I", "d">>,
                         Value  |-> Ref(vpc),
                         Export |-> "${AWS::StackName}-vpc-id"])

----------------------------------------------------------------------------
(* VpcTemplate methods, src/src/ec2.py:362-591 *)

\* what a method call started from
Pre == [r |-> _r, nat_gateways |-> nat_gateways, natted_route_tables |-> natted_route_tables]

\* ec2.py:397: the Elastic IP of a NAT gateway
Eip(suffix) ==
    [Type |-> "AWS::EC2::EIP", title |-> <<"E", "i", "p", "N", "a", "t", "G", "w">> \o Digits(suffix), Domain |-> "vpc"]

\* ec2.py:400-406
NatGateway(subnet, eip) ==
    [Type         |-> "AWS::EC2::NatGateway",
     title        |-> <<"N", "a", "t", "G", "w">> \o Digits(subnet.Metadata.suffix),
     AllocationId |-> GetAtt(eip, "AllocationId"),
     SubnetId     |-> Ref(subnet),
     Tags         |-> NameTag(<<"N", "a", "t", " ", "G", "w", " ">> \o subnet.Metadata.az_index),
     Metadata     |-> [az       |-> subnet.Metadata.az,
                       az_index |-> subnet.Metadata.az_index,
                       suffix   |-> subnet.Metadata.suffix]]

\* faulty variant: the private route table is titled by zone, as the NAT route is
PrivRouteTableByAz(subnet, vpc) ==
    [Type     |-> "AWS::EC2::RouteTable",
     title    |-> <<"P", "r", "i", "v", "R", "o", "u", "t", "e", "T", "a", "b", "l", "e">> \o subnet.Metadata.az_index,
     VpcId    |-> Ref(vpc),
     Tags     |-> NameTag(<<"P", "r", "i", "v", "a", "t", "e", " ">> \o subnet.Metadata.az_index),
     Metadata |-> [az       |-> subnet.Metadata.az,
                   az_index |-> subnet.Metadata.az_index,
                   suffix   |-> subnet.Metadata.suffix]]

\* ec2.py:410-415
PrivRouteTable(subnet, vpc) ==
    [Type     |-> "AWS::EC2::RouteTable",
     title    |-> <<"P", "r", "i", "v", "R", "o", "u", "t", "e", "T", "a", "b", "l", "e">> \o Digits(subnet.Metadata.suffix),
     VpcId    |-> Ref(vpc),
     Tags     |-> NameTag(<<"P", "r", "i", "v", "a", "t", "e", " ">> \o subnet.Metadata.az_index),
     Metadata |-> [az       |-> subnet.Metadata.az,
                   az_index |-> subnet.Metadata.az_index,
                   suffix   |-> subnet.Metadata.suffix]]

\* ec2.py:419-424
NatRoute(subnet, route_table, nat_gw) ==
    [Type                 |-> "AWS::EC2::Route",
     title                |-> <<"N", "a", "t", "R", "o", "u", "t", "e">> \o Upper(subnet.Metadata.az_index),
     RouteTableId         |-> Ref(route_table),
     DestinationCidrBlock |-> AnyCidr,
     NatGatewayId         |-> Ref(nat_gw)]

\* ec2.py:392-425: what one subnet adds when create_nat_gateways is set
AddNatGateway(st, subnet, vpc) ==
    LET eip         == Eip(subnet.Metadata.suffix)
        nat_gw      == NatGateway(subnet, eip)
        route_table == PrivRouteTable(subnet, vpc)
        route       == NatRoute(subnet, route_table, nat_gw)
    IN  [r |-> DictSet(DictSet(DictSet(DictSet(st.r, eip.title, eip),
                                       nat_gw.title, nat_gw),
                               route_table.title, route_table),
                       route.title, route),
         nat_gateways        |-> Append(st.nat_gateways, nat_gw),
         natted_route_tables |-> Append(st.natted_route_tables, route_table)]

\* the loop of ec2.py:381-425 from the i-th returned resource on
RECURSIVE PublicLoop(_, _, _, _, _)
PublicLoop(st, list, i, create_nat_gateways, vpc) ==
    IF i > Len(list) THEN st
    ELSE LET res == list[i]
             st1 == [st EXCEPT !.r = DictSet(st.r, res.title, res)]
         IN  PublicLoop(IF create_nat_gateways /\ res.Type = "AWS::EC2::Subnet"
                        THEN AddNatGateway(st1, res, vpc)
                        ELSE st1,
                        list, i + 1, create_nat_gateways, vpc)

\* the call of ec2.py:381-389
PublicSubnetsCall(name_prefix, cidr_block, no_of_subnets) ==
    multiaz_subnets([name_prefix    |-> name_prefix,
                     cidr_block     |-> cidr_block,
                     region         |-> self.region,
                     no_of_subnets  |-> no_of_subnets,
                     vpc            |-> self.vpc,
                     vpc_id         |-> None,
                     network_acl    |-> self.public_nacl,
                     network_acl_id |-> None,
                     route_table    |-> self.public_route_table,
                     route_table_id |-> None])

add_public_subnet_group(name_prefix, cidr_block, no_of_subnets, create_nat_gateways) ==
    LET call == PublicSubnetsCall(name_prefix, cidr_block, no_of_subnets)
        st   == PublicLoop(Pre, call.resources, 1, create_nat_gateways, self.vpc)
    IN  /\ _r' = st.r
        /\ nat_gateways' = st.nat_gateways
        /\ natted_route_tables' = st.natted_route_tables
        /\ last' = [op        |-> "add_public_subnet_group",
                    args      |-> [name_prefix         |-> name_prefix,
                                   cidr_block          |-> cidr_block,
                                   no_of_subnets       |-> no_of_subnets,
                                   create_nat_gateways |-> create_nat_gateways],
                    raised    |-> call.raised,
                    requested |-> call.requested,
                    created   |-> call.resources,
                    built     |-> <<>>,
                    pre       |-> Pre]
        /\ calls' = calls + 1
        /\ UNCHANGED <<self, _o, _t>>

\* faulty variant: the loop does not stop at the first match
LastRouteTableInAz(tables, az) ==
    LET found == {j \in 1..Len(tables) : tables[j].Metadata.az = az}
    IN  IF found = {} THEN 0 ELSE CHOOSE j \in found : \A k \in found : j >= k

\* ec2.py:455-465: the first private route table in the subnet's zone, 0 if none
FirstRouteTableInAz(tables, az) ==
    LET found == {j \in 1..Len(tables) : tables[j].Metadata.az = az}
    IN  IF found = {} THEN 0 ELSE CHOOSE j \in found : \A k \in found : j <= k

\* the loop of ec2.py:444-469 from the i-th returned resource on; it stops
\* at the raise and keeps what was registered until then
RECURSIVE NattedLoop(_, _, _, _)
NattedLoop(st, list, i, tables) ==
    IF i > Len(list) THEN st
    ELSE LET res == list[i]
             r1  == DictSet(st.r, res.title, res)
             j   == FirstRouteTableInAz(tables, res.Metadata.az)
         IN  IF res.Type # "AWS::EC2::Subnet"
             THEN NattedLoop([st EXCEPT !.r = r1], list, i + 1, tables)
             ELSE IF j = 0
                  THEN [r |-> r1, raised |-> "NotImplementedError"]
                  ELSE NattedLoop(
                           [st EXCEPT !.r = DictSet(r1, res.title \o <<"R", "o", "u", "t", "e", "A", "s", "s", "o", "c", "i", "a", "t", "i", "o", "n">>,
                                                    SubnetRouteTableAssociation(res, Ref(tables[j])))],
                           list, i + 1, tables)

\* the call of ec2.py:444-450: no_of_subnets is not among its arguments, so
\* multiaz_subnets runs with its default
DefaultNoOfSubnets == 4

NattedSubnetsCall(name_prefix, cidr_block) ==
    multiaz_subnets([name_prefix    |-> name_prefix,
                     cidr_block     |-> cidr_block,
                     region         |-> self.region,
                     no_of_subnets  |-> DefaultNoOfSubnets,
                     vpc            |-> self.vpc,
                     vpc_id         |-> None,
                     network_acl    |-> self.internal_nacl,
                     network_acl_id |-> None,
                     route_table    |-> None,
                     route_table_id |-> None])

add_natted_subnet_group(cidr_block, name_prefix, no_of_subnets) ==
    LET call == NattedSubnetsCall(name_prefix, cidr_block)
        st   == NattedLoop([r |-> _r, raised |-> call.raised], call.resources, 1,
                           natted_route_tables)
    IN  /\ _r' = st.r
        /\ last' = [op        |-> "add_natted_subnet_group",
                    args      |-> [cidr_block    |-> cidr_block,
                                   name_prefix   |-> name_prefix,
                                   no_of_subnets |-> no_of_subnets],
                    raised    |-> st.raised,
                    requested |-> call.requested,
                    created   |-> call.resources,
                    built     |-> <<>>,
                    pre       |-> Pre]
        /\ calls' = calls + 1
        /\ UNCHANGED <<self, _o, _t, nat_gateways, natted_route_tables>>

\* the call of ec2.py:480-487: the method's vpc and no_of_subnets are not used
SubnetGroupCall(name_prefix, cidr_block, network_acl, route_table) ==
    multiaz_subnets([name_prefix    |-> name_prefix,
                     cidr_block     |-> cidr_block,
                     region         |-> self.region,
                     no_of_subnets  |-> DefaultNoOfSubnets,
                     vpc            |-> self.vpc,
                     vpc_id         |-> None,
                     network_acl    |-> network_acl,
                     network_acl_id |-> None,
                     route_table    |-> route_table,
                     route_table_id |-> None])

\* the loop of ec2.py:480-488
RECURSIVE RegisterAll(_, _, _)
RegisterAll(d, list, i) ==
    IF i > Len(list) THEN d
    ELSE RegisterAll(DictSet(d, list[i].title, list[i]), list, i + 1)

add_subnet_group(name_prefix, cidr_block, vpc, no_of_subnets, network_acl, route_table) ==
    LET call == SubnetGroupCall(name_prefix, cidr_block, network_acl, route_table)
    IN  /\ _r' = RegisterAll(_r, call.resources, 1)
        /\ last' = [op        |-> "add_subnet_group",
                    args      |-> [name_prefix   |-> name_prefix,
                                   cidr_block    |-> cidr_block,
                                   vpc           |-> vpc,
                                   no_of_subnets |-> no_of_subnets,
                                   network_acl   |-> network_acl,
                                   route_table   |-> route_table],
                    raised    |-> call.raised,
                    requested |-> call.requested,
                    created   |-> call.resources,
                    built     |-> <<>>,
                    pre       |-> Pre]
        /\ calls' = calls + 1
        /\ UNCHANGED <<self, _o, _t, nat_gateways, natted_route_tables>>

\* ec2.py:538-551; an optional property that is not set holds None
VPCPeeringConnection(a) ==
    [Type        |-> "AWS::EC2::VPCPeeringConnection",
     title       |-> Alphanum(<<"P", "e", "e", "r">> \o Capitalize(a.peer_vpc_name)
                              \o <<"W", "i", "t", "h">> \o Capitalize(self.name)),
     VpcId       |-> Ref(self.vpc),
     PeerVpcId   |-> a.peer_vpc_id,
     Tags        |-> NameTag(a.peer_vpc_name \o <<" ", "-", " ">> \o self.name),
     PeerRegion  |-> a.peer_region,
     PeerOwnerId |-> a.peer_owner_id,
     PeerRoleArn |-> a.peer_role_arn]

\* ec2.py:556 and 565-567
PeerRouteTitle(route_table, cidr) ==
    route_table.title \o <<"P", "e", "e", "r">> \o Alphanum(cidr) \o <<"R", "o", "u", "t", "e">>

\* ec2.py:557-562 and 568-573
PeerRoute(route_table, cidr, peering) ==
    [Type                   |-> "AWS::EC2::Route",
     title                  |-> PeerRouteTitle(route_table, cidr),
     RouteTableId           |-> Ref(route_table),
     DestinationCidrBlock   |-> Str(cidr),
     VpcPeeringConnectionId |-> Ref(peering)]

\* the inner loop of ec2.py:555-562
RECURSIVE PeerTables(_, _, _, _, _)
PeerTables(d, cidr, tables, j, peering) ==
    IF j > Len(tables) THEN d
    ELSE PeerTables(DictSet(d, PeerRouteTitle(tables[j], cidr),
                            PeerRoute(tables[j], cidr, peering)),
                    cidr, tables, j + 1, peering)

\* the outer loop of ec2.py:554-562
RECURSIVE PeerPrivate(_, _, _, _, _)
PeerPrivate(d, peer_cidrs, i, tables, peering) ==
    IF i > Len(peer_cidrs) THEN d
    ELSE PeerPrivate(PeerTables(d, peer_cidrs[i], tables, 1, peering),
                     peer_cidrs, i + 1, tables, peering)

\* the loop of ec2.py:564-573
RECURSIVE PeerPublic(_, _, _, _, _)
PeerPublic(d, peer_cidrs, i, table, peering) ==
    IF i > Len(peer_cidrs) THEN d
    ELSE PeerPublic(DictSet(d, PeerRouteTitle(table, peer_cidrs[i]),
                            PeerRoute(table, peer_cidrs[i], peering)),
                    peer_cidrs, i + 1, table, peering)

peer_with_another_vpc(a) ==
    LET res == VPCPeeringConnection(a)
        r1  == DictSet(_r, res.title, res)
        r2  == IF a.add_route_to_private_tables
               THEN PeerPrivate(r1, a.peer_cidrs, 1, natted_route_tables, res)
               ELSE r1
        r3  == IF a.add_route_to_public_table
               THEN PeerPublic(r2, a.peer_cidrs, 1, self.public_route_table, res)
               ELSE r2
    IN  /\ _r' = r3
        /\ last' = [op        |-> "peer_with_another_vpc",
                    args      |-> a,
                    raised    |-> "None",
                    requested |-> 0,
                    created   |-> <<>>,
                    built     |-> <<res>>,
                    pre       |-> Pre]
        /\ calls' = calls + 1
        /\ UNCHANGED <<self, _o, _t, nat_gateways, natted_route_tables>>

\* ec2.py:577-584
VPCEndpoint ==
    [Type          |-> "AWS::EC2::VPCEndpoint",
     title         |-> Alphanum(self.name \o <<"S", "3", "E", "n", "d", "p", "o", "i", "n", "t", "G", "a", "t", "e", "w", "a", "y">>),
     VpcId         |-> Ref(self.vpc),
     ServiceName   |-> <<"c", "o", "m", ".", "a", "m", "a", "z", "o", "n", "a", "w", "s", ".">> \o self.region \o <<".", "s", "3">>,
     RouteTableIds |-> [j \in 1..Len(natted_route_tables) |-> Ref(natted_route_tables[j])]]

\* ec2.py:575-584: the endpoint is built and bound to a local name, no more
set_s3_endpoint ==
    /\ last' = [op        |-> "set_s3_endpoint",
                args      |-> None,
                raised    |-> "None",
                requested |-> 0,
                created   |-> <<>>,
                built     |-> <<VPCEndpoint>>,
                pre       |-> Pre]
    /\ calls' = calls + 1
    /\ UNCHANGED <<self, _r, _o, _t, nat_gateways, natted_route_tables>>

\* troposphere's Template.add_resource / add_output over a dict's values in
\* order: a title the template already holds raises ValueError (duplicate key)
RECURSIVE AddAll(_, _, _)
AddAll(st, d, i) ==
    IF i > Len(d) \/ st.raised # "None" THEN st
    ELSE AddAll(IF DictHas(st.d, d[i].value.title)
                THEN [st EXCEPT !.raised = "ValueError"]
                ELSE [st EXCEPT !.d = DictSet(st.d, d[i].value.title, d[i].value)],
                d, i + 1)

\* ec2.py:586-591
generate ==
    LET res == AddAll([d |-> _t.resources, raised |-> "None"], _r, 1)
        out == AddAll([d |-> _t.outputs, raised |-> res.raised], _o, 1)
    IN  /\ _t' = [resources |-> res.d, outputs |-> out.d]
        /\ last' = [op        |-> "generate",
                    args      |-> None,
                    raised    |-> out.raised,
                    requested |-> 0,
                    created   |-> <<>>,
                    built     |-> <<>>,
                    pre       |-> Pre]
        /\ calls' = calls + 1
        /\ UNCHANGED <<self, _r, _o, nat_gateways, natted_route_tables>>

----------------------------------------------------------------------------
(* HttpApi, src/src/apigatewayv2.py:8-117 *)

\* troposphere.Join(delimiter, values)
Join(delimiter, values) == [kind |-> "Join", delimiter |-> delimiter, values |-> values]

\* apigatewayv2.py:14-18; a Description that is not set holds None
Api(name, description) ==
    [Type         |-> "AWS::ApiGatewayV2::Api",
     title        |-> Alphanum(name) \o <<"H", "T", "T", "P", "A", "p", "i">>,
     ProtocolType |-> "HTTP",
     Name         |-> name,
     Description  |-> description]

\* HttpApi(name, description): apigatewayv2.py:9-19
HttpApiInit(name, description) ==
    resources = DictSet(<<>>, Str(Api(name, description).title), Api(name, description))

\* the API this HttpApi was built with: its first resource
t_api == resources[1].value

\* faulty variant: the names are compared as written
ValidLogFormatExactCase(log_format) ==
    \/ InSeq(log_format, <<<<"n", "o", "n", "e">>, <<"c", "l", "f">>, <<"j", "s", "o", "n">>, <<"x", "m", "l">>, <<"c", "s", "v">>>>)
    \/ Contains(log_format, <<"$", "c", "o", "n", "t", "e", "x", "t", ".", "r", "e", "q", "u", "e", "s", "t", "I", "d">>)

\* apigatewayv2.py:22-27: whether log_format passes the check
ValidLogFormat(log_format) ==
    \/ InSeq(Lower(log_format), <<<<"n", "o", "n", "e">>, <<"c", "l", "f">>, <<"j", "s", "o", "n">>, <<"x", "m", "l">>, <<"c", "s", "v">>>>)
    \/ Contains(log_format, <<"$", "c", "o", "n", "t", "e", "x", "t", ".", "r", "e", "q", "u", "e", "s", "t", "I", "d">>)

\* apigatewayv2.py:48-66: the Format of a named log format, None otherwise
LogFormatText(log_format) ==
    CASE Lower(log_format) = <<"c", "l", "f">>  -> Str(<<"c", "l", "f">>)
      [] Lower(log_format) = <<"j", "s", "o", "n">> -> Str(<<"j", "s", "o", "n">>)
      [] Lower(log_format) = <<"x", "m", "l">>  -> Str(<<"x", "m", "l">>)
      [] Lower(log_format) = <<"c", "s", "v">>  -> Str(<<"c", "s", "v">>)
      [] OTHER -> None

\* apigatewayv2.py:29-68: the stage object and, unless log_format is "none",
\* the access log settings; neither is stored anywhere
StageObjects(name, auto_deploy, log_format) ==
    <<[Type       |-> "AWS::ApiGatewayV2::Stage",
       title      |-> Alphanum(name) \o <<"S", "t", "a", "g", "e">>,
       ApiId      |-> Ref(t_api),
       StageName  |-> name,
       AutoDeploy |-> auto_deploy]>>
    \o (IF Lower(log_format) # <<"n", "o", "n", "e">>
        THEN <<[Type           |-> "AccessLogSettings",
                title          |-> <<>>,
                DestinationArn |-> Join(":", <<"arn", "aws", "logs", "AWS::Region",
                                               "AWS::AccountId",
                                               Alphanum(t_api.Name) \o <<"H", "t", "t", "p", "A", "p", "i">>,
                                               Alphanum(name)>>),
                Format         |-> LogFormatText(log_format)]>>
        ELSE <<>>)

add_stage(name, auto_deploy, log_format) ==
    /\ api_last' = [op     |-> "add_stage",
                    args   |-> [name |-> name, auto_deploy |-> auto_deploy,
                                log_format |-> log_format],
                    raised |-> IF ValidLogFormat(log_format) THEN "None" ELSE "ValueError",
                    built  |-> IF ValidLogFormat(log_format)
                               THEN StageObjects(name, auto_deploy, log_format)
                               ELSE <<>>,
                    pre    |-> resources]
    /\ api_calls' = api_calls + 1
    /\ UNCHANGED resources

\* apigatewayv2.py:82-91
HttpMethods ==
    <<<<"A", "N", "Y">>, <<"G", "E", "T">>, <<"P", "O", "S", "T">>, <<"P", "U", "T">>, <<"P", "A", "T", "C", "H">>, <<"H", "E", "A", "D">>, <<"D", "E", "L", "E", "T", "E">>, <<"O", "P", "T", "I", "O", "N", "S">>>>

\* faulty variant: the method is compared as written
ValidHttpMethodExactCase(http_method) == InSeq(http_method, HttpMethods)

\* apigatewayv2.py:82-92: whether http_method passes the check
ValidHttpMethod(http_method) == InSeq(Upper(http_method), HttpMethods)

\* apigatewayv2.py:101
IsHttpTarget(target) ==
    Prefix(Lower(target), 5) = <<"h", "t", "t", "p", ":">> \/ Prefix(Lower(target), 6) = <<"h", "t", "t", "p", "s", ":">>

\* apigatewayv2.py:94-107
Integration(path, target, http_method, timeout, description) ==
    [Type                 |-> "AWS::ApiGatewayV2::Integration",
     title                |-> Alphanum(path) \o <<"I", "n", "t", "e", "g", "r", "a", "t", "i", "o", "n">>,
     ApiId                |-> Ref(t_api),
     Description          |-> description,
     IntegrationMethod    |-> http_method,
     IntegrationUri       |-> target,
     IntegrationType      |-> IF IsHttpTarget(target) THEN "HTTP_PROXY" ELSE "AWS_PROXY",
     PayloadFormatVersion |-> IF IsHttpTarget(target) THEN "1.0" ELSE "2.0",
     TimeoutInMillis      |-> timeout]

\* apigatewayv2.py:109-115
Route(path, http_method, description, api_integration) ==
    [Type          |-> "AWS::ApiGatewayV2::Route",
     title         |-> Alphanum(path) \o <<"R", "o", "u", "t", "e">>,
     ApiId         |-> Ref(t_api),
     OperationName |-> description,
     RouteKey      |-> http_method \o <<" ", "/">> \o path,
     Target        |-> Join("/", <<"integrations", Ref(api_integration)>>)]

\* apigatewayv2.py:116-117: the integration is stored under its title, the
\* route under the route object itself
RegisterRoute(d, api_integration, api_route) ==
    DictSet(DictSet(d, Str(api_integration.title), api_integration), api_route, api_route)

add_route(path, target, http_method, timeout, description) ==
    LET api_integration == Integration(path, target, http_method, timeout, description)
        api_route       == Route(path, http_method, description, api_integration)
        ok              == ValidHttpMethod(http_method)
    IN  /\ resources' = IF ok THEN RegisterRoute(resources, api_integration, api_route)
                        ELSE resources
        /\ api_last' = [op     |-> "add_route",
                        args   |-> [path |-> path, target |-> target,
                                    http_method |-> http_method, timeout |-> timeout,
                                    description |-> description],
                        raised |-> IF ok THEN "None" ELSE "ValueError",
                        built  |-> IF ok THEN <<api_integration, api_route>> ELSE <<>>,
                        pre    |-> resources]
        /\ api_calls' = api_calls + 1

----------------------------------------------------------------------------
(* Specifications *)

MaxCalls    == 2
MaxApiCalls == 2

\* constructor arguments
VpcName          == <<"M", "a", "i", "n">>
InternalNetworks == <<<<"1", "9", "2", ".", "1", "6", "8", ".", "0", ".", "0", "/", "1", "6">>>>
ApiName          == <<"o", "r", "d", "e", "r", "s", "-", "a", "p", "i">>

\* method arguments
CreateNatGateways == BOOLEAN
PeerCidrLists     == {<<>>, <<<<"1", "0", ".", "8", ".", "0", ".", "0", "/", "1", "6">>>>, <<<<"1", "0", ".", "1", ".", "1", "0", ".", "0", "/", "2", "4">>, <<"1", "0", ".", "1", "1", ".", "0", ".", "0", "/", "2", "4">>>>}
PeerArgs ==
    [peer_vpc_id                 : {Str(<<"v", "p", "c", "-", "9", "f">>)},
     peer_vpc_name               : {<<"s", "h", "a", "r", "e", "d">>},
     peer_role_arn               : {None},
     peer_owner_id               : {None},
     peer_region                 : {None},
     peer_cidrs                  : PeerCidrLists,
     add_route_to_private_tables : BOOLEAN,
     add_route_to_public_table   : BOOLEAN]

SubnetCounts == {2, 4}
StageNames   == {<<"p", "r", "o", "d">>}
LogFormats   == {<<"n", "o", "n", "e">>, <<"N", "O", "N", "E">>, <<"C", "l", "f">>, <<"j", "s", "o", "n">>, <<"X", "M", "L">>, <<"c", "s", "v">>, <<>>, <<"t", "e", "x", "t">>,
                 <<"j", "s", "o", "n", "l">>, <<"$", "c", "o", "n", "t", "e", "x", "t", ".", "r", "e", "q", "u", "e", "s", "t", "I", "d">>, <<"i", "p", " ", "$", "c", "o", "n", "t", "e", "x", "t", ".", "r", "e", "q", "u", "e", "s", "t", "I", "d", ";">>,
                 <<"$", "c", "o", "n", "t", "e", "x", "t", ".", "r", "e", "q", "u", "e", "s", "t", "i", "d">>, <<"$", "c", "o", "n", "t", "e", "x", "t", ".", "r", "e", "q", "u", "e", "s", "t">>}
Paths        == {<<"u", "s", "e", "r", "s">>, <<"u", "s", "e", "r", "s", "/", "{", "i", "d", "}">>}
Targets      == {<<"H", "T", "T", "P", "S", ":", "/", "/", "s", "v", "c", ".", "l", "o", "c", "a", "l", "/">>, <<"a", "r", "n", ":", "a", "w", "s", ":", "l", "a", "m", "b", "d", "a", ":", "f">>}
MethodInputs == {<<"A", "N", "Y">>, <<"g", "e", "t">>, <<"P", "o", "s", "t">>, <<"P", "U", "T">>, <<"p", "a", "t", "c", "h">>, <<"H", "E", "A", "D">>, <<"d", "e", "l", "e", "t", "e">>,
                 <<"O", "P", "T", "I", "O", "N", "S">>, <<>>, <<"G", "E", "T", "S">>, <<"T", "R", "A", "C", "E">>}
DefaultTimeout == 10000

Pending == [raised |-> "pending", requested |-> 0, resources |-> <<>>]

\* no direct call of multiaz_subnets is under way
SubnetsIdle ==
    /\ ms_call = None
    /\ ms_out = None

VpcBuilt(internet_access_enabled, internal_networks) ==
    /\ VpcTemplateInit(RegionName, VpcCidr, VpcName, internet_access_enabled, internal_networks)
    /\ last = [op        |-> "__init__",
               args      |-> None,
               raised    |-> "None",
               requested |-> 0,
               created   |-> <<>>,
               built     |-> <<>>,
               pre       |-> [r |-> <<>>, nat_gateways |-> <<>>, natted_route_tables |-> <<>>]]
    /\ calls = 0

ApiBuilt(description) ==
    /\ HttpApiInit(ApiName, description)
    /\ api_last = [op |-> "__init__", args |-> None, raised |-> "None", built |-> <<>>,
                   pre |-> <<>>]
    /\ api_calls = 0

\* no VpcTemplate has been constructed
VpcIdle ==
    /\ self = None
    /\ _r = <<>>
    /\ _o = <<>>
    /\ _t = None
    /\ nat_gateways = <<>>
    /\ natted_route_tables = <<>>
    /\ last = None
    /\ calls = 0

\* no HttpApi has been constructed
ApiIdle ==
    /\ resources = <<>>
    /\ api_last = None
    /\ api_calls = 0

(* multiaz_subnets called once with arguments of every shape *)
InitSubnets ==
    /\ ms_call \in MsArgs
    /\ ms_out = Pending
    /\ VpcIdle
    /\ ApiIdle

CallMultiazSubnets ==
    /\ ms_out = Pending
    /\ ms_out' = multiaz_subnets(ms_call)
    /\ UNCHANGED <<ms_call, vpc_vars, api_vars>>

NextSubnets == CallMultiazSubnets

SpecSubnets == InitSubnets /\ [][NextSubnets]_vars

(* a VpcTemplate and up to MaxCalls method calls on it *)
InitVpc ==
    /\ SubnetsIdle
    /\ \E e \in BOOLEAN : VpcBuilt(e, InternalNetworks)
    /\ ApiIdle

AddPublicSubnetGroup ==
    /\ calls < MaxCalls
    /\ \E p \in NamePrefixes, n \in SubnetCounts, g \in CreateNatGateways :
           add_public_subnet_group(p, VpcCidr, n, g)
    /\ UNCHANGED <<subnet_vars, api_vars>>

AddNattedSubnetGroup ==
    /\ calls < MaxCalls
    /\ \E p \in NamePrefixes, n \in SubnetCounts : add_natted_subnet_group(VpcCidr, p, n)
    /\ UNCHANGED <<subnet_vars, api_vars>>

AddSubnetGroup ==
    /\ calls < MaxCalls
    /\ \E p \in NamePrefixes, n \in SubnetCounts,
          t \in {<<None, None>>, <<self.internal_nacl, self.public_route_table>>} :
           add_subnet_group(p, VpcCidr, None, n, t[1], t[2])
    /\ UNCHANGED <<subnet_vars, api_vars>>

PeerWithAnotherVpc ==
    /\ calls < MaxCalls
    /\ \E a \in PeerArgs : peer_with_another_vpc(a)
    /\ UNCHANGED <<subnet_vars, api_vars>>

SetS3Endpoint ==
    /\ calls < MaxCalls
    /\ set_s3_endpoint
    /\ UNCHANGED <<subnet_vars, api_vars>>

Generate ==
    /\ calls < MaxCalls
    /\ generate
    /\ UNCHANGED <<subnet_vars, api_vars>>

NextVpc ==
    \/ AddPublicSubnetGroup
    \/ AddNattedSubnetGroup
    \/ AddSubnetGroup
    \/ PeerWithAnotherVpc
    \/ SetS3Endpoint
    \/ Generate

SpecVpc == InitVpc /\ [][NextVpc]_vars

(* an HttpApi and up to MaxApiCalls method calls on it *)
InitApi ==
    /\ SubnetsIdle
    /\ VpcIdle
    /\ \E d \in {None, Str(<<"O", "r", "d", "e", "r", "s">>)} : ApiBuilt(d)

AddStage ==
    /\ api_calls < MaxApiCalls
    /\ \E n \in StageNames, f \in LogFormats : add_stage(n, FALSE, f)
    /\ UNCHANGED <<subnet_vars, vpc_vars>>

AddRoute ==
    /\ api_calls < MaxApiCalls
    /\ \E p \in Paths, t \in Targets, m \in MethodInputs :
           add_route(p, t, m, DefaultTimeout, None)
    /\ UNCHANGED <<subnet_vars, vpc_vars>>

NextApi == AddStage \/ AddRoute

SpecApi == InitApi /\ [][NextApi]_vars

----------------------------------------------------------------------------
(* Properties of multiaz_subnets, checked under SpecSubnets *)

IsSubnet(res) == res.Type = "AWS::EC2::Subnet"
IsAclAssociation(res) == res.Type = "AWS::EC2::SubnetNetworkAclAssociation"
IsRouteAssociation(res) == res.Type = "AWS::EC2::SubnetRouteTableAssociation"

\* the subnets of a list of resources
SubnetsOf(list) == {list[i] : i \in {j \in 1..Len(list) : IsSubnet(list[j])}}

Returned == ms_out.raised = "None"
AclGiven == ms_call.network_acl # None \/ ms_call.network_acl_id # None
RouteTableGiven == ms_call.route_table # None \/ ms_call.route_table_id # None
Count(b) == IF b THEN 1 ELSE 0

\* C1: multiaz_subnets raises ValueError exactly when vpc and vpc_id are
\* both None, whatever the other arguments are, and then the CIDR split was
\* never asked for and no resource was built.
C1_ValueErrorIffNoVpc ==
    ms_out.raised # "pending" =>
        /\ (ms_out.raised = "ValueError") <=> (ms_call.vpc = None /\ ms_call.vpc_id = None)
        /\ ms_out.raised = "ValueError" => ms_out.requested = 0 /\ ms_out.resources = <<>>
        /\ ms_out.raised # "ValueError" => Returned /\ ms_out.requested = ms_call.no_of_subnets

C1_Witness ==
    /\ ms_out.raised = "ValueError"
    /\ ms_call.network_acl # None
    /\ ms_call.route_table_id # None
    /\ ms_call.no_of_subnets = 2

\* C2: in the returned list every subnet is followed by exactly one network
\* ACL association that references it when an ACL was passed (object or id),
\* then by exactly one route table association when a route table was passed,
\* and by nothing else; k segments give k * (1 + [ACL] + [route table])
\* resources.
C2_AssociationsFollowSubnets ==
    Returned =>
        LET list == ms_out.resources
            k    == Len(split_net_across_zones(ms_call.cidr_block, ms_call.region,
                                               ms_call.no_of_subnets))
            acl  == Count(AclGiven)
            rt   == Count(RouteTableGiven)
            AclAssociations(i) ==
                {j \in 1..Len(list) : IsAclAssociation(list[j]) /\ list[j].SubnetId = Ref(list[i])}
            RouteAssociations(i) ==
                {j \in 1..Len(list) : IsRouteAssociation(list[j]) /\ list[j].SubnetId = Ref(list[i])}
        IN  /\ Cardinality({i \in 1..Len(list) : IsSubnet(list[i])}) = k
            /\ Len(list) = k * (1 + acl + rt)
            /\ \A i \in 1..Len(list) : IsSubnet(list[i]) =>
                   /\ AclAssociations(i) = IF AclGiven THEN {i + 1} ELSE {}
                   /\ RouteAssociations(i) = IF RouteTableGiven THEN {i + 1 + acl} ELSE {}

C2_Witness ==
    /\ Returned
    /\ ms_call.network_acl # None /\ ms_call.network_acl_id = None
    /\ ms_call.route_table = None /\ ms_call.route_table_id # None
    /\ ms_call.no_of_subnets = 4
    /\ Len(ms_out.resources) = 12

\* C3: when a resource object and its id are both passed, every subnet and
\* every association of the returned list carries the id, never a reference
\* to the object.
C3_IdTakesPrecedence ==
    Returned =>
        \A i \in 1..Len(ms_out.resources) :
            LET res == ms_out.resources[i]
            IN  /\ (IsSubnet(res) /\ ms_call.vpc # None /\ ms_call.vpc_id # None)
                       => res.VpcId = ms_call.vpc_id
                /\ (IsAclAssociation(res) /\ ms_call.network_acl # None
                                          /\ ms_call.network_acl_id # None)
                       => res.NetworkAclId = ms_call.network_acl_id
                /\ (IsRouteAssociation(res) /\ ms_call.route_table # None
                                            /\ ms_call.route_table_id # None)
                       => res.RouteTableId = ms_call.route_table_id

C3_Witness ==
    /\ Returned
    /\ ms_call.vpc # None /\ ms_call.vpc_id # None
    /\ ms_call.network_acl # None /\ ms_call.network_acl_id # None
    /\ ms_call.route_table # None /\ ms_call.route_table_id # None
    /\ Len(ms_out.resources) = 12

----------------------------------------------------------------------------
(* Properties of VpcTemplate, checked under SpecVpc *)

Registered == DictValues(_r)
RegisteredBefore == DictValues(last.pre.r)

IsNatGateway(res) == res.Type = "AWS::EC2::NatGateway"
IsEip(res) == res.Type = "AWS::EC2::EIP"
IsPeeringRoute(res) == res.Type = "AWS::EC2::Route" /\ "VpcPeeringConnectionId" \in DOMAIN res
IsNatRoute(res) == res.Type = "AWS::EC2::Route" /\ "NatGatewayId" \in DOMAIN res
IsPrivateRouteTable(res) == res.Type = "AWS::EC2::RouteTable" /\ "Metadata" \in DOMAIN res

\* the resources a NAT gateway set-up consists of
IsNatResource(res) ==
    IsEip(res) \/ IsNatGateway(res) \/ IsPrivateRouteTable(res) \/ IsNatRoute(res)

SubnetsCreated == SubnetsOf(last.created)
SeqRange(s) == {s[i] : i \in 1..Len(s)}

\* C4: after add_public_subnet_group with create_nat_gateways set, every
\* subnet the call created has exactly one registered NAT gateway in it, with
\* a registered Elastic IP no other registered NAT gateway uses, and a
\* registered private route table with the subnet's az / az_index / suffix;
\* both are also in nat_gateways / natted_route_tables. Without the flag the
\* call registers no EIP, NAT gateway, private route table or NAT route and
\* leaves nat_gateways and natted_route_tables as they were.
C4_NatGatewayPerPublicSubnet ==
    last.op = "add_public_subnet_group" =>
        IF last.args.create_nat_gateways
        THEN \A subnet \in SubnetsCreated :
                 /\ \E g \in Registered :
                        /\ IsNatGateway(g) /\ g.SubnetId = Ref(subnet)
                        /\ g \in SeqRange(nat_gateways)
                        /\ \A h \in Registered :
                               (IsNatGateway(h) /\ h.SubnetId = Ref(subnet)) => h = g
                        /\ \E e \in Registered :
                               /\ IsEip(e) /\ g.AllocationId = GetAtt(e, "AllocationId")
                               /\ \A h \in Registered :
                                      (IsNatGateway(h) /\ h.AllocationId = g.AllocationId)
                                          => h = g
                 /\ \E t \in Registered :
                        /\ IsPrivateRouteTable(t)
                        /\ t.Metadata = subnet.Metadata
                        /\ t \in SeqRange(natted_route_tables)
        ELSE /\ {res \in Registered : IsNatResource(res)}
                    = {res \in RegisteredBefore : IsNatResource(res)}
             /\ nat_gateways = last.pre.nat_gateways
             /\ natted_route_tables = last.pre.natted_route_tables

C4_Witness ==
    /\ last.op = "add_public_subnet_group"
    /\ last.args.create_nat_gateways
    /\ last.args.no_of_subnets = 4
    /\ Cardinality(SubnetsCreated) = 4
    /\ Len(last.pre.natted_route_tables) = 2
    /\ Len(natted_route_tables) = 6

\* the private route tables in a zone, in creation order
TablesInAz(az) == {j \in 1..Len(natted_route_tables) : natted_route_tables[j].Metadata.az = az}

\* C5: add_natted_subnet_group raises NotImplementedError exactly when some
\* created subnet lies in a zone without a private route table; otherwise
\* every created subnet has exactly one registered network ACL association,
\* to the internal network ACL, and exactly one registered route table
\* association, to the first private route table of its zone.
C5_NattedSubnetsAssociated ==
    last.op = "add_natted_subnet_group" =>
        IF \E subnet \in SubnetsCreated : TablesInAz(subnet.Metadata.az) = {}
        THEN last.raised = "NotImplementedError"
        ELSE /\ last.raised = "None"
             /\ \A subnet \in SubnetsCreated :
                    /\ subnet \in Registered
                    /\ \E a \in Registered :
                           /\ IsAclAssociation(a) /\ a.SubnetId = Ref(subnet)
                           /\ a.NetworkAclId = Ref(self.internal_nacl)
                           /\ \A b \in Registered :
                                  (IsAclAssociation(b) /\ b.SubnetId = Ref(subnet)) => b = a
                    /\ \E a \in Registered :
                           /\ IsRouteAssociation(a) /\ a.SubnetId = Ref(subnet)
                           /\ \E j \in TablesInAz(subnet.Metadata.az) :
                                  /\ \A k \in TablesInAz(subnet.Metadata.az) : j <= k
                                  /\ a.RouteTableId = Ref(natted_route_tables[j])
                           /\ \A b \in Registered :
                                  (IsRouteAssociation(b) /\ b.SubnetId = Ref(subnet)) => b = a

C5_Witness ==
    /\ last.op = "add_natted_subnet_group"
    /\ last.raised = "None"
    /\ Cardinality(SubnetsCreated) = 4
    /\ \E subnet \in SubnetsCreated : Cardinality(TablesInAz(subnet.Metadata.az)) = 2

\* C6: for each of add_public_subnet_group, add_natted_subnet_group and
\* add_subnet_group, the number of subnets asked of the CIDR split, and the
\* number of subnets the call creates, is the caller's no_of_subnets.
C6_NoOfSubnetsHonoured ==
    last.op \in {"add_public_subnet_group", "add_natted_subnet_group", "add_subnet_group"} =>
        /\ last.requested = last.args.no_of_subnets
        /\ Cardinality(SubnetsCreated) = last.args.no_of_subnets

\* a registered route of this peering connection sending cidr through table
HasPeerRoute(table, cidr) ==
    \E route \in Registered :
        /\ IsPeeringRoute(route)
        /\ route.RouteTableId = Ref(table)
        /\ route.DestinationCidrBlock = Str(cidr)
        /\ route.VpcPeeringConnectionId = Ref(last.built[1])

IsPrivateTableRef(ref) == \E j \in 1..Len(natted_route_tables) : ref = Ref(natted_route_tables[j])

\* the peering routes a call registered or replaced
PeerRoutesAdded == {res \in Registered \ RegisteredBefore : IsPeeringRoute(res)}

\* C7: peer_with_another_vpc registers the peering connection; with
\* add_route_to_private_tables it registers a route for every (cidr, private
\* route table) pair of peer_cidrs and the private route tables existing at
\* the call, with add_route_to_public_table a route for every cidr in the
\* public route table; a flag that is False adds no route to that kind of
\* table; and a private route table created by a later
\* add_public_subnet_group call has no peering route.
C7_PeerRoutesPerCidrAndTable ==
    /\ last.op = "peer_with_another_vpc" =>
           /\ last.built[1] \in Registered
           /\ last.args.add_route_to_private_tables =>
                  \A i \in 1..Len(last.args.peer_cidrs), j \in 1..Len(last.pre.natted_route_tables) :
                      HasPeerRoute(last.pre.natted_route_tables[j], last.args.peer_cidrs[i])
           /\ last.args.add_route_to_public_table =>
                  \A i \in 1..Len(last.args.peer_cidrs) :
                      HasPeerRoute(self.public_route_table, last.args.peer_cidrs[i])
           /\ ~last.args.add_route_to_private_tables =>
                  \A route \in PeerRoutesAdded : ~IsPrivateTableRef(route.RouteTableId)
           /\ ~last.args.add_route_to_public_table =>
                  \A route \in PeerRoutesAdded :
                      route.RouteTableId # Ref(self.public_route_table)
    /\ last.op = "add_public_subnet_group" =>
           \A j \in (Len(last.pre.natted_route_tables) + 1)..Len(natted_route_tables) :
               \A route \in Registered :
                   IsPeeringRoute(route) => route.RouteTableId # Ref(natted_route_tables[j])

\* C8: after set_s3_endpoint the registered resources hold a VPC endpoint for
\* com.amazonaws.<region>.s3 in this VPC whose RouteTableIds reference every
\* private route table.
C8_S3EndpointRegistered ==
    last.op = "set_s3_endpoint" =>
        \E res \in Registered :
            /\ res.Type = "AWS::EC2::VPCEndpoint"
            /\ res.VpcId = Ref(self.vpc)
            /\ res.ServiceName = <<"c", "o", "m", ".", "a", "m", "a", "z", "o", "n", "a", "w", "s", ".">> \o self.region \o <<".", "s", "3">>
            /\ \A j \in 1..Len(natted_route_tables) :
                   Ref(natted_route_tables[j]) \in SeqRange(res.RouteTableIds)

----------------------------------------------------------------------------
(* Properties of HttpApi, checked under SpecApi *)

\* a and b are the same up to the case of their letters
EqualsIgnoreCase(a, b) ==
    /\ Len(a) = Len(b)
    /\ \A i \in 1..Len(a) : LowerChar(a[i]) = LowerChar(b[i])

\* sub occurs in s: s = u \o sub \o v for some u and v
Occurs(sub, s) ==
    \E i \in 0..Len(s) : \E j \in i..Len(s) :
        /\ j - i = Len(sub)
        /\ \A n \in 1..Len(sub) : s[i + n] = sub[n]

MethodNames ==
    {<<"A", "N", "Y">>, <<"G", "E", "T">>, <<"P", "O", "S", "T">>, <<"P", "U", "T">>, <<"P", "A", "T", "C", "H">>, <<"H", "E", "A", "D">>, <<"D", "E", "L", "E", "T", "E">>, <<"O", "P", "T", "I", "O", "N", "S">>}

LogFormatNames == {<<"n", "o", "n", "e">>, <<"c", "l", "f">>, <<"j", "s", "o", "n">>, <<"x", "m", "l">>, <<"c", "s", "v">>}

\* C9: add_route raises ValueError exactly when http_method is, up to case,
\* none of ANY, GET, POST, PUT, PATCH, HEAD, DELETE, OPTIONS; when it raises,
\* resources is what it was before the call.
C9_AddRouteRejectsUnknownMethod ==
    api_last.op = "add_route" =>
        /\ (api_last.raised = "ValueError")
               <=> ~\E m \in MethodNames : EqualsIgnoreCase(api_last.args.http_method, m)
        /\ api_last.raised = "ValueError" => resources = api_last.pre
        /\ api_last.raised # "ValueError" =>
               /\ api_last.raised = "None"
               /\ \A i \in 1..Len(api_last.built) : api_last.built[i] \in DictValues(resources)

C9_Witness ==
    /\ api_last.op = "add_route"
    /\ api_last.raised = "ValueError"
    /\ api_last.args.http_method = <<"G", "E", "T", "S">>
    /\ Len(api_last.pre) = 3
    /\ resources = api_last.pre

\* C10: add_stage raises ValueError exactly when log_format is neither, up
\* to case, one of none, clf, json, xml, csv nor a string in which
\* "$context.requestId" occurs; a rejected call has built no stage object
\* and changed nothing.
C10_AddStageRejectsUnknownLogFormat ==
    api_last.op = "add_stage" =>
        /\ (api_last.raised = "ValueError")
               <=> /\ ~\E f \in LogFormatNames : EqualsIgnoreCase(api_last.args.log_format, f)
                   /\ ~Occurs(<<"$", "c", "o", "n", "t", "e", "x", "t", ".", "r", "e", "q", "u", "e", "s", "t", "I", "d">>, api_last.args.log_format)
        /\ api_last.raised = "ValueError" =>
               /\ api_last.built = <<>>
               /\ resources = api_last.pre
        /\ api_last.raised # "ValueError" =>
               /\ api_last.raised = "None"
               /\ Len(api_last.built) >= 1
               /\ api_last.built[1].Type = "AWS::ApiGatewayV2::Stage"

C10_Witness ==
    /\ api_last.op = "add_stage"
    /\ api_last.raised = "ValueError"
    /\ api_last.args.log_format = <<"$", "c", "o", "n", "t", "e", "x", "t", ".", "r", "e", "q", "u", "e", "s", "t", "i", "d">>
    /\ Len(resources) = 3

====
